---------------------------- MODULE Spec2Model ----------------------------
(***************************************************************************)
(* Naeilum: Korean name recommendation (src/app.py).                       *)
(*                                                                         *)
(* Strings are sequences of Unicode code points.  Scores are exact         *)
(* rationals held as integers in units of 1/Scale; the 6-decimal rounding  *)
(* of compute_similarity_score yields integers in units of 10^-6.          *)
(***************************************************************************)
EXTENDS Integers, Sequences, FiniteSets, TLC

-----------------------------------------------------------------------------
(* Bounds of the model *)

\* longest normalised string the scorer is applied to
MaxLen == 7
\* length of the generated inputs of the scorer specification
ScoreLen == 2
\* code points given to the romanizer on each side of the syllable block
RomanMargin == 1
\* number of entries of the longest catalog of the selection specification
MaxCat == 6
\* number of distinct values a tie-break draw can take
TieRange == 2
\* period of the position counter of the process-wide generator
RngPeriod == 3
\* last day the clock reaches
MaxDay == 1

-----------------------------------------------------------------------------
(* Generic helpers *)

Min(x, y) == IF x <= y THEN x ELSE y

Max(x, y) == IF x >= y THEN x ELSE y

Abs(x) == IF x >= 0 THEN x ELSE 0 - x

SetMax(S) == CHOOSE x \in S : \A y \in S : y <= x

SetMin(S) == CHOOSE x \in S : \A y \in S : x <= y

Range(s) == { s[i] : i \in 1..Len(s) }

RECURSIVE Flatten(_)
Flatten(ss) == IF ss = << >> THEN << >> ELSE Head(ss) \o Flatten(Tail(ss))

RECURSIVE Gcd(_, _)
Gcd(x, y) == IF y = 0 THEN x ELSE Gcd(y, x % y)

RECURSIVE LcmUpTo(_)
LcmUpTo(n) == IF n <= 1 THEN 1 ELSE (LcmUpTo(n - 1) * n) \div Gcd(LcmUpTo(n - 1), n)

-----------------------------------------------------------------------------
(* Constants of the program *)

ALLOWED_GENDERS == { "male", "female" }

HANGUL_BASE == 44032

\* a block that ends one code point late: 19 leads of 588 syllables, counted
\* from HANGUL_BASE without the step back to the last of them
HANGUL_LAST_past == HANGUL_BASE + 19 * 588

HANGUL_LAST == 55203

NAME_MAX_LEN == 100

CHO_ROMA ==
    << <<103>>, <<107, 107>>, <<110>>, <<100>>, <<116, 116>>, <<114>>,
       <<109>>, <<98>>, <<112, 112>>, <<115>>, <<115, 115>>, << >>,
       <<106>>, <<106, 106>>, <<99, 104>>, <<107>>, <<116>>, <<112>>,
       <<104>> >>

JUNG_ROMA ==
    << <<97>>, <<97, 101>>, <<121, 97>>, <<121, 97, 101>>, <<101, 111>>,
       <<101>>, <<121, 101, 111>>, <<121, 101>>, <<111>>, <<119, 97>>,
       <<119, 97, 101>>, <<111, 101>>, <<121, 111>>, <<117>>, <<119, 111>>,
       <<119, 101>>, <<119, 105>>, <<121, 117>>, <<101, 117>>, <<117, 105>>,
       <<105>> >>

JONG_ROMA ==
    << << >>, <<107>>, <<107>>, <<107, 115>>, <<110>>, <<110, 106>>,
       <<110, 104>>, <<116>>, <<108>>, <<108, 107>>, <<108, 109>>,
       <<108, 112>>, <<108, 116>>, <<108, 112>>, <<108, 104>>, <<109>>,
       <<112>>, <<112, 115>>, <<116>>, <<116>>, <<110, 103>>, <<116>>,
       <<116>>, <<107>>, <<116>>, <<112>>, <<116>>, <<104>> >>

-----------------------------------------------------------------------------
(* Characters: what unicodedata, re and str do on the code points used *)

AsciiUpper == 65..90

AsciiLower == 97..122

AsciiDigit == 48..57

Whitespace == { 9, 10, 11, 12, 13, 32 }

\* unicodedata.category(ch) == "Mn": the combining diacritical marks
CombiningMarks == 768..879

\* unicodedata.normalize("NFD", ch) of one code point: the precomposed Latin
\* letters used in the inputs, and the algorithmic decomposition of a Hangul
\* syllable into conjoining jamo; every other code point used is its own NFD.
NFDChar(c) ==
    CASE c = 233 -> << 101, 769 >>
      [] c = 201 -> << 69, 769 >>
      [] c = 241 -> << 110, 771 >>
      [] c >= HANGUL_BASE /\ c <= HANGUL_LAST ->
            LET index == c - HANGUL_BASE
                lv == << 4352 + (index \div 588), 4449 + ((index % 588) \div 28) >>
            IN  IF index % 28 = 0 THEN lv ELSE lv \o << 4519 + (index % 28) >>
      [] OTHER -> << c >>

NFD(text) == Flatten([i \in 1..Len(text) |-> NFDChar(text[i])])

LowerChar(c) == IF c \in AsciiUpper THEN c + 32 ELSE c

UpperChar(c) == IF c \in AsciiLower THEN c - 32 ELSE c

Lower(text) == [i \in 1..Len(text) |-> LowerChar(text[i])]

Upper(text) == [i \in 1..Len(text) |-> UpperChar(text[i])]

\* text[:1]
First1(text) == IF text = << >> THEN << >> ELSE << text[1] >>

\* text[-1:]
Last1(text) == IF text = << >> THEN << >> ELSE << text[Len(text)] >>

RECURSIVE RStrip(_)
RStrip(text) ==
    IF text = << >> THEN << >>
    ELSE IF text[Len(text)] \in Whitespace THEN RStrip(SubSeq(text, 1, Len(text) - 1))
         ELSE text

RECURSIVE LStrip(_)
LStrip(text) ==
    IF text = << >> THEN << >>
    ELSE IF Head(text) \in Whitespace THEN LStrip(Tail(text)) ELSE text

Strip(text) == LStrip(RStrip(text))

DropMarks(text) == SelectSeq(text, LAMBDA c : c \notin CombiningMarks)

normalize_name(name) ==
    Lower(SelectSeq(DropMarks(NFD(name)),
                    LAMBDA c : c \in AsciiLower \/ c \in AsciiUpper \/ c \in AsciiDigit))

normalize_romanization(text) ==
    Lower(SelectSeq(DropMarks(NFD(text)),
                    LAMBDA c : c \in AsciiLower \/ c \in AsciiUpper))

-----------------------------------------------------------------------------
(* Hangul romanizer *)

\* what a call gives when a lookup raises IndexError: no string
IndexError == << 0 - 1 >>

\* list[index] of a Python list: from the end for a negative index,
\* IndexError outside -len..len-1
list_item(list, index) ==
    IF 0 <= index /\ index < Len(list) THEN list[index + 1]
    ELSE IF 0 - Len(list) <= index /\ index < 0 THEN list[Len(list) + index + 1]
    ELSE IndexError

\* lines 183-185: the locals of romanize_syllable for a code point it
\* takes for a syllable
syllable_indices(code_point) ==
    LET index == code_point - HANGUL_BASE
    IN  [ cho |-> index \div 588, jung |-> (index % 588) \div 28, jong |-> index % 28 ]

romanize_syllable(char) ==
    IF HANGUL_BASE <= char /\ char <= HANGUL_LAST
    THEN LET at == syllable_indices(char)
             parts == << list_item(CHO_ROMA, at.cho), list_item(JUNG_ROMA, at.jung),
                         list_item(JONG_ROMA, at.jong) >>
         IN  IF \E i \in 1..3 : parts[i] = IndexError THEN IndexError
             ELSE RStrip(parts[1] \o parts[2] \o parts[3])
    ELSE << char >>

romanize_korean_text(text) ==
    Flatten([i \in 1..Len(text) |-> romanize_syllable(text[i])])

-----------------------------------------------------------------------------
(* difflib.SequenceMatcher(None, a, b).ratio(), no junk; positions are      *)
(* 1-based, lo inclusive, hi exclusive                                      *)

\* length of the common run of a from i and b from j inside the windows
RunLen(a, b, i, j, ahi, bhi) ==
    SetMax({ k \in 0..Min(ahi - i, bhi - j) :
               \A d \in 0..(k - 1) : a[i + d] = b[j + d] })

\* find_longest_match: the longest block, earliest in a, then earliest in b
find_longest_match(a, b, alo, ahi, blo, bhi) ==
    LET sizes == { RunLen(a, b, i, j, ahi, bhi) : i \in alo..(ahi - 1), j \in blo..(bhi - 1) }
        bestsize == IF sizes = {} THEN 0 ELSE SetMax(sizes)
    IN  IF bestsize = 0 THEN << alo, blo, 0 >>
        ELSE LET besti == SetMin({ i \in alo..(ahi - 1) :
                                     \E j \in blo..(bhi - 1) :
                                        RunLen(a, b, i, j, ahi, bhi) = bestsize })
                 bestj == SetMin({ j \in blo..(bhi - 1) :
                                     RunLen(a, b, besti, j, ahi, bhi) = bestsize })
             IN  << besti, bestj, bestsize >>

\* get_matching_blocks: total size of the blocks found left and right of
\* the longest one
RECURSIVE matching_size(_, _, _, _, _, _)
matching_size(a, b, alo, ahi, blo, bhi) ==
    LET m == find_longest_match(a, b, alo, ahi, blo, bhi)
        i == m[1]
        j == m[2]
        k == m[3]
    IN  IF k = 0 THEN 0
        ELSE k
             + (IF alo < i /\ blo < j
                THEN matching_size(a, b, alo, i, blo, j) ELSE 0)
             + (IF i + k < ahi /\ j + k < bhi
                THEN matching_size(a, b, i + k, ahi, j + k, bhi) ELSE 0)

\* scores are integers in units of 1/Scale; Scale is a multiple of 1000 and
\* of every total length la + lb <= 2 * MaxLen, so every term is exact
ScaleLcm == LcmUpTo(2 * MaxLen)

Scale == 1000 * ScaleLcm

\* ratio = 2.0 * matches / (len(a) + len(b)), 1.0 for two empty strings
ratio(a, b) ==
    IF Len(a) + Len(b) = 0 THEN Scale
    ELSE 2 * matching_size(a, b, 1, Len(a) + 1, 1, Len(b) + 1)
           * (Scale \div (Len(a) + Len(b)))

\* thousandths, in units of 1/Scale
Milli(n) == n * ScaleLcm

-----------------------------------------------------------------------------
(* Similarity scorer *)

\* entry.get(field, "") of a catalog entry: a missing field is the empty
\* string; romanization is a list of strings (a bare string is the list of
\* that string)
RECURSIVE DedupLower(_, _)
DedupLower(candidates, seen) ==
    IF candidates = << >> THEN << >>
    ELSE LET key == Lower(Head(candidates))
         IN  IF key \in seen THEN DedupLower(Tail(candidates), seen)
             ELSE << Head(candidates) >> \o DedupLower(Tail(candidates), seen \cup { key })

get_candidate_romanization(name_entry) ==
    LET given == SelectSeq(name_entry.romanization, LAMBDA value : value # << >>)
        hangul_name == name_entry.name
        candidates == IF hangul_name # << >>
                      THEN given \o << romanize_korean_text(hangul_name) >>
                      ELSE given
        deduped == DedupLower(candidates, {})
    IN  IF deduped # << >> THEN deduped ELSE << hangul_name >>

\* the ratio of one variant after the three adjustments (lines 238-243)
AdjustedRatio(english_norm, candidate_norm) ==
    ratio(english_norm, candidate_norm)
      + (IF First1(english_norm) = First1(candidate_norm) THEN Milli(80) ELSE 0)
      + (IF Last1(english_norm) = Last1(candidate_norm) THEN Milli(40) ELSE 0)
      - Min(Milli(150), Abs(Len(english_norm) - Len(candidate_norm)) * Milli(15))

\* the loop of lines 233-244: best_score starts at 0.0
RECURSIVE BestOver(_, _, _)
BestOver(english_norm, candidates, best_score) ==
    IF candidates = << >> THEN best_score
    ELSE LET candidate_norm == normalize_romanization(Head(candidates))
         IN  IF candidate_norm = << >>
             THEN BestOver(english_norm, Tail(candidates), best_score)
             ELSE BestOver(english_norm, Tail(candidates),
                           Max(best_score, AdjustedRatio(english_norm, candidate_norm)))

\* a loop that starts below every adjusted ratio
InitialBestScore_unclamped == 0 - 2 * Scale

InitialBestScore == 0

best_score_of(english_norm, name_entry) ==
    BestOver(english_norm, get_candidate_romanization(name_entry), InitialBestScore)

\* round-half-even of n / d, d > 0
RoundHalfEven(n, d) ==
    LET q == n \div d
        r == n % d
    IN  IF 2 * r < d THEN q
        ELSE IF 2 * r > d THEN q + 1
        ELSE IF q % 2 = 0 THEN q ELSE q + 1

\* round(x, 6) of x given in units of 1/Scale: the result is in units of 10^-6
Round6(x) == (x \div ScaleLcm) * 1000 + RoundHalfEven((x % ScaleLcm) * 1000, ScaleLcm)

compute_similarity_score(english_name, name_entry) ==
    LET english_norm == normalize_romanization(english_name)
    IN  IF english_norm = << >> THEN 0
        ELSE LET best_score == best_score_of(english_norm, name_entry)
                 bonus == IF Upper(name_entry.initial) = Upper(First1(english_norm))
                          THEN Milli(30) ELSE 0
             IN  Round6(best_score + bonus)

-----------------------------------------------------------------------------
(* Catalog data.  NAMES_DATA and FORTUNES_DATA are loaded once at start-up  *)
(* (lines 148-149) and never written afterwards; the specifications draw    *)
(* them from the families below.                                            *)

Entry(name, romanization, category, initial, special_match) ==
    [ name |-> name, romanization |-> romanization, category |-> category,
      initial |-> initial, special_match |-> special_match ]

NoText == << >>

\* a seeded catalog: entry 1 is reserved for the input "Wil Son"; entry 2
\* repeats its name and its initial W; entries 5 and 6 repeat its category
MasterSeed ==
    << Entry(<<50956>>, << >>, "Honor", <<87>>, <<87, 105, 108, 32, 83, 111, 110>>),
       Entry(<<50956>>, << >>, "Grace", <<87>>, NoText),
       Entry(<<51648, 54984>>, << <<74, 105, 104, 117, 110>>, <<74, 105, 45, 104, 111, 111, 110>> >>,
             "Wisdom", <<74>>, NoText),
       Entry(<<51648, 54840>>, << >>, "Grace", <<74>>, NoText),
       Entry(<<48124, 51456>>, << >>, "Honor", <<77>>, NoText),
       Entry(<<54616, 45720>>, << >>, "Honor", <<72>>, NoText),
       Entry(<<49688, 50500>>, << <<83, 117, 45, 97>> >>, "Joy", <<83>>, NoText),
       Entry(<<54788>>, << >>, "Luck", <<72>>, NoText) >>

\* pairwise-distinct names, one initial and one category; entry 5 is
\* reserved for an input that is never given
MasterSame ==
    << Entry(<<51652>>, << <<74, 105, 110>> >>, "Honor", <<74>>, NoText),
       Entry(<<51456>>, << >>, "Honor", <<74>>, NoText),
       Entry(<<51648, 54984>>, << >>, "Honor", <<74>>, NoText),
       Entry(<<51648, 54840>>, << >>, "Honor", <<74>>, NoText),
       Entry(<<48124>>, << >>, "Honor", <<74>>, <<88, 32, 89>>),
       Entry(<<54788>>, << >>, "Honor", <<74>>, NoText) >>

\* no reserved entry; entries 2 and 3 share a name; entry 7 lacks the
\* optional fields
MasterDup ==
    << Entry(<<51648, 54984>>, << <<74, 105, 104, 117, 110>> >>, "Honor", <<74>>, NoText),
       Entry(<<51652>>, << >>, "Grace", <<74>>, NoText),
       Entry(<<51652>>, << <<74, 105, 110>> >>, "Wisdom", <<74>>, NoText),
       Entry(<<48124, 51456>>, << >>, "Grace", <<77>>, NoText),
       Entry(<<54616, 45720>>, << >>, "Joy", <<72>>, NoText),
       Entry(<<49688, 50500>>, << >>, "Luck", <<83>>, NoText),
       Entry(<<54788>>, << >>, "", NoText, NoText),
       Entry(<<50980>>, << >>, "Joy", <<89>>, NoText) >>

\* generate_fallback_names()["female"] (lines 90-99)
FallbackFemale ==
    << Entry(<<49436, 50980>>, << <<83, 101, 111, 121, 117, 110>>, <<83, 101, 111, 45, 121, 111, 111, 110>> >>,
             "Grace", <<83>>, NoText) >>

Prefix(master, n) == SubSeq(master, 1, Min(n, Len(master)))

NamesData(male, female) == [ male |-> male, female |-> female ]

\* the catalogs of the selection specification
SelectCatalogs ==
    { NamesData(Prefix(m, n), FallbackFemale) :
        m \in { MasterSeed, MasterSame, MasterDup }, n \in 1..MaxCat }
    \cup { NamesData(<< >>, << >>) }

\* the catalogs of the request specification: no entry at all; one entry,
\* reserved for an input that is never given; the entry reserved for
\* "Wil Son" and an entry of another name.  The female list is empty in each
\* (an empty names_female.json).
RequestCatalogs ==
    { NamesData(<< >>, << >>),
      NamesData(<< MasterSame[5] >>, << >>),
      NamesData(<< MasterSeed[1], MasterSeed[3] >>, << >>) }

\* the fortune catalog: a category with three messages, one without
\* category_ko (written "") and with two messages, one without messages,
\* one whose only message is a bare string
Message(en, ko) == [ kind |-> "dict", en |-> en, ko |-> ko ]

BareMessage(text) == [ kind |-> "str", en |-> text, ko |-> "" ]

FortuneCatalog ==
    << [ category |-> "Love", category_ko |-> "sarang",
         messages |-> << Message("love1", "k1"), Message("love2", "k2"), Message("love3", "k3") >> ],
       [ category |-> "Career", category_ko |-> "",
         messages |-> << Message("career1", "k4"), Message("career2", "k5") >> ],
       [ category |-> "Wealth", category_ko |-> "jaemul", messages |-> << >> ],
       [ category |-> "Health", category_ko |-> "geongang",
         messages |-> << BareMessage("health1") >> ] >>

\* names a client types
InputWilson == <<87, 105, 108, 115, 111, 110>>

InputJihun == <<74, 105, 104, 117, 110>>

InputZz9 == <<90, 122, 57>>

InputPadded == <<32, 87, 105, 108, 115, 111, 110, 32>>

InputBlank == <<32, 32>>

InputTooLong == [ i \in 1..(NAME_MAX_LEN + 1) |-> 97 ]

SelectInputs == { InputWilson, InputJihun, InputZz9 }

-----------------------------------------------------------------------------
(* State *)

Clients == { 1, 2 }

VARIABLES
    NAMES_DATA,      \* gender -> list of entries (line 148)
    FORTUNES_DATA,   \* list of fortune categories (line 149)
    rng_state,       \* position of the generator behind random.random and
                     \* random.shuffle, the one generator of the process
    today,           \* datetime.now(): days since 2024-01-01
    session,         \* client -> the client's session: the key the handlers
                     \* read back, recommendations
    pc,              \* client -> position of the request being served
    call,            \* client -> locals of select_korean_names
    response,        \* the response the last step sent, with its Date header;
                     \* NoResponse when the step sent none
    scorer,          \* argument and result of a compute_similarity_score call
    romanizer        \* argument, locals and result of a romanize_syllable call

vars == << NAMES_DATA, FORTUNES_DATA, rng_state, today, session, pc, call,
           response, scorer, romanizer >>

NoCall ==
    [ original_name |-> NoText, gender |-> "", selections |-> << >>,
      scored_candidates |-> << >>, idx |-> 0, seen_korean_names |-> {},
      seeded |-> 0, walked |-> 0 ]

NoResponse ==
    [ status |-> 0, code |-> "", names |-> << >>,
      name |-> << >>, fortune |-> << >>, date |-> 0 ]

NoSession == [ stored |-> FALSE, recommendations |-> << >> ]

NoScorer == [ english_name |-> NoText, entry |-> << >>, best_score |-> 0, score |-> 0, done |-> FALSE ]

NoRomanizer ==
    [ char |-> 0, cho |-> 0, jung |-> 0, jong |-> 0, result |-> << >>, done |-> FALSE ]

-----------------------------------------------------------------------------
(* select_korean_names (lines 252-306) *)

\* entry in selections: equality of dictionaries
InList(entry, list) == \E i \in 1..Len(list) : list[i] = entry

\* NAMES_DATA.get(gender, [])
gender_names_of(data, gender) ==
    IF gender \in DOMAIN data THEN data[gender] ELSE << >>

\* lines 262-266: the first entry whose special_match normalises to the input
special_matches(gender_names, normalized_input) ==
    { i \in 1..Len(gender_names) :
        /\ gender_names[i].special_match # NoText
        /\ normalize_name(gender_names[i].special_match) = normalized_input }

special_seed(gender_names, original_name) ==
    LET hits == special_matches(gender_names, normalize_name(original_name))
    IN  IF hits = {} THEN << >> ELSE << gender_names[SetMin(hits)] >>

\* line 270: the entries the scoring loop skips
skipped_by_scoring(entry, selections) ==
    InList(entry, selections) \/ entry.special_match # NoText

Scored(score, tie, entry) == [ score |-> score, tie |-> tie, entry |-> entry ]

\* a sort by ascending score
RanksBefore_ascending(x, y) ==
    x.score < y.score \/ (x.score = y.score /\ x.tie < y.tie)

\* line 275: key (-score, tie)
RanksBefore(x, y) ==
    x.score > y.score \/ (x.score = y.score /\ x.tie < y.tie)

\* list.sort is stable: an item goes behind the items it does not precede
RECURSIVE InsertRanked(_, _)
InsertRanked(sorted, item) ==
    IF sorted = << >> THEN << item >>
    ELSE IF RanksBefore(item, Head(sorted)) THEN << item >> \o sorted
         ELSE << Head(sorted) >> \o InsertRanked(Tail(sorted), item)

RECURSIVE SortRanked(_)
SortRanked(items) ==
    IF items = << >> THEN << >>
    ELSE InsertRanked(SortRanked(SubSeq(items, 1, Len(items) - 1)), items[Len(items)])

WalkState(selections, seen_initials, seen_categories, seen_korean_names) ==
    [ selections |-> selections, seen_initials |-> seen_initials,
      seen_categories |-> seen_categories, seen_korean_names |-> seen_korean_names ]

\* the three tests of lines 285-292
walk_skips(entry, w) ==
    \/ entry.name \in w.seen_korean_names
    \/ (entry.initial \in w.seen_initials /\ Len(w.selections) < 3)
    \/ (entry.category \in w.seen_categories /\ Len(w.selections) >= 3)

\* lines 293-299
walk_append(entry, w) ==
    WalkState(Append(w.selections, entry),
              IF entry.initial # NoText THEN w.seen_initials \cup { entry.initial }
              ELSE w.seen_initials,
              IF entry.category # "" THEN w.seen_categories \cup { entry.category }
              ELSE w.seen_categories,
              IF entry.name # NoText THEN w.seen_korean_names \cup { entry.name }
              ELSE w.seen_korean_names)

\* lines 281-299
RECURSIVE diversity_walk(_, _)
diversity_walk(ranked, w) ==
    IF ranked = << >> \/ Len(w.selections) >= 5 THEN w
    ELSE IF walk_skips(Head(ranked).entry, w) THEN diversity_walk(Tail(ranked), w)
         ELSE diversity_walk(Tail(ranked), walk_append(Head(ranked).entry, w))

\* lines 277-279: the three sets are empty when the walk starts
walk_start(selections) == WalkState(selections, {}, {}, {})

\* a backfill that passes over the reserved entries
RECURSIVE leftovers_unreserved(_, _, _)
leftovers_unreserved(gender_names, selections, seen_korean_names) ==
    IF gender_names = << >> THEN << >>
    ELSE LET entry == Head(gender_names)
             rest == leftovers_unreserved(Tail(gender_names), selections, seen_korean_names)
         IN  IF /\ ~InList(entry, selections)
                /\ entry.name \notin seen_korean_names
                /\ entry.special_match = NoText
             THEN << entry >> \o rest ELSE rest

\* line 302
RECURSIVE leftovers_of(_, _, _)
leftovers_of(gender_names, selections, seen_korean_names) ==
    IF gender_names = << >> THEN << >>
    ELSE LET entry == Head(gender_names)
             rest == leftovers_of(Tail(gender_names), selections, seen_korean_names)
         IN  IF ~InList(entry, selections) /\ entry.name \notin seen_korean_names
             THEN << entry >> \o rest ELSE rest

\* the orders random.shuffle can leave a list of n items in
RECURSIVE Orders(_)
Orders(S) ==
    IF S = {} THEN { << >> }
    ELSE UNION { { << x >> \o o : o \in Orders(S \ { x }) } : x \in S }

\* selections[:n]
Take(list, n) == SubSeq(list, 1, Min(n, Len(list)))

\* one value of the process-wide generator is consumed
advance(state, draws) == (state + draws) % RngPeriod

\* lines 254-266
SelectBegin(t) ==
    /\ pc[t] = "call"
    /\ LET gender_names == gender_names_of(NAMES_DATA, call[t].gender)
       IN  IF gender_names = << >>
           THEN /\ pc' = [pc EXCEPT ![t] = "return"]
                /\ call' = [call EXCEPT ![t].selections = << >>]
           ELSE LET seed == special_seed(gender_names, call[t].original_name)
                IN  /\ pc' = [pc EXCEPT ![t] = "scoring"]
                    /\ call' = [call EXCEPT ![t].selections = seed,
                                            ![t].seeded = Len(seed),
                                            ![t].scored_candidates = << >>,
                                            ![t].idx = 1]
    /\ response' = NoResponse
    /\ UNCHANGED << NAMES_DATA, FORTUNES_DATA, rng_state, today, session, scorer, romanizer >>

\* one iteration of the loop of lines 269-273
ScoreEntry(t) ==
    /\ pc[t] = "scoring"
    /\ LET gender_names == gender_names_of(NAMES_DATA, call[t].gender)
       IN  /\ call[t].idx <= Len(gender_names)
           /\ LET entry == gender_names[call[t].idx]
              IN  IF skipped_by_scoring(entry, call[t].selections)
                  THEN /\ call' = [call EXCEPT ![t].idx = @ + 1]
                       /\ UNCHANGED rng_state
                  ELSE \E draw \in 0..(TieRange - 1) :
                          /\ call' = [call EXCEPT
                                ![t].idx = @ + 1,
                                ![t].scored_candidates =
                                    Append(@, Scored(compute_similarity_score(call[t].original_name, entry),
                                                     draw, entry))]
                          /\ rng_state' = advance(rng_state, 1)
    /\ response' = NoResponse
    /\ UNCHANGED << NAMES_DATA, FORTUNES_DATA, today, session, pc, scorer, romanizer >>

\* lines 275-301: the sort, the walk and the test for the backfill; the list
\* scored_candidates is a local of the call and is gone at the return
RankAndWalk(t) ==
    /\ pc[t] = "scoring"
    /\ call[t].idx > Len(gender_names_of(NAMES_DATA, call[t].gender))
    /\ LET ranked == SortRanked(call[t].scored_candidates)
           w == diversity_walk(ranked, walk_start(call[t].selections))
       IN  /\ call' = [call EXCEPT ![t].scored_candidates =
                                       IF Len(w.selections) < 5 THEN ranked ELSE << >>,
                                   ![t].selections = w.selections,
                                   ![t].seen_korean_names = w.seen_korean_names,
                                   ![t].walked = Len(w.selections)]
           /\ pc' = [pc EXCEPT ![t] = IF Len(w.selections) < 5 THEN "backfill" ELSE "return"]
    /\ response' = NoResponse
    /\ UNCHANGED << NAMES_DATA, FORTUNES_DATA, rng_state, today, session, scorer, romanizer >>

\* lines 302-304; random.shuffle draws once for each item but the first
Backfill(t) ==
    /\ pc[t] = "backfill"
    /\ LET leftovers == leftovers_of(gender_names_of(NAMES_DATA, call[t].gender),
                                     call[t].selections, call[t].seen_korean_names)
       IN  /\ \E order \in Orders(1..Len(leftovers)) :
                 LET shuffled == [ i \in 1..Len(leftovers) |-> leftovers[order[i]] ]
                 IN  call' = [call EXCEPT ![t].selections =
                                 @ \o Take(shuffled, 5 - Len(call[t].selections)),
                                          ![t].scored_candidates = << >>]
           /\ rng_state' = advance(rng_state, Max(0, Len(leftovers) - 1))
    /\ pc' = [pc EXCEPT ![t] = "return"]
    /\ response' = NoResponse
    /\ UNCHANGED << NAMES_DATA, FORTUNES_DATA, today, session, scorer, romanizer >>

\* line 306
returned(c) == Take(c.selections, 5)

-----------------------------------------------------------------------------
(* The selection specification: one call of select_korean_names on every    *)
(* catalog, name and gender of the families above                           *)

SelectGenders == ALLOWED_GENDERS \cup { "other" }

InitSelect ==
    /\ NAMES_DATA \in SelectCatalogs
    /\ FORTUNES_DATA = FortuneCatalog
    /\ rng_state = 0
    /\ today = 0
    /\ session = [ t \in Clients |-> NoSession ]
    /\ \E name \in SelectInputs, gender \in SelectGenders :
          call = [ t \in Clients |->
                     IF t = 1 THEN [ NoCall EXCEPT !.original_name = name, !.gender = gender ]
                     ELSE NoCall ]
    /\ pc = [ t \in Clients |-> IF t = 1 THEN "call" ELSE "off" ]
    /\ response = NoResponse
    /\ scorer = NoScorer
    /\ romanizer = NoRomanizer

NextSelect ==
    \/ \E t \in Clients : SelectBegin(t)
    \/ \E t \in Clients : ScoreEntry(t)
    \/ \E t \in Clients : RankAndWalk(t)
    \/ \E t \in Clients : Backfill(t)

SpecSelect == InitSelect /\ [][NextSelect]_vars

-----------------------------------------------------------------------------
(* Properties of select_korean_names *)

Returned(t) == pc[t] = "return"

\* the walk of the call of t is over
Walked(t) == pc[t] \in { "backfill", "return" }

CatalogOf(t) == gender_names_of(NAMES_DATA, call[t].gender)

HasSpecialMatch(t) ==
    special_matches(CatalogOf(t), normalize_name(call[t].original_name)) # {}

DistinctNames(list) ==
    \A i, j \in 1..Len(list) : i < j => list[i].name # list[j].name

\* C1: the list select_korean_names returns never holds two entries with
\* the same name, whatever the catalog, the input and the random outcomes.
C1_NoDuplicateNames ==
    \A t \in Clients : Returned(t) => DistinctNames(returned(call[t]))

\* C2: when some entry's normalised special_match equals the normalised
\* input, the first such entry of the catalog is element 0 of the result,
\* at most 4 entries follow it, and none of them has its name.
C2_SpecialMatchFirst ==
    \A t \in Clients :
        (Returned(t) /\ HasSpecialMatch(t)) =>
            LET result == returned(call[t])
                first == SetMin(special_matches(CatalogOf(t), normalize_name(call[t].original_name)))
            IN  /\ Len(result) >= 1
                /\ Len(result) <= 5
                /\ result[1] = CatalogOf(t)[first]
                /\ \A i \in 2..Len(result) : result[i].name # result[1].name

\* C3: an entry with a special_match field is in the result only if its
\* normalised special_match equals the normalised input; the backfill does
\* not append it otherwise.
C3_ReservedOnlyOnMatch ==
    \A t \in Clients :
        Returned(t) =>
            \A i \in 1..Len(returned(call[t])) :
                LET entry == returned(call[t])[i]
                IN  entry.special_match # NoText =>
                        normalize_name(entry.special_match) = normalize_name(call[t].original_name)

Initials(list) == { list[i].initial : i \in 1..Len(list) }

Categories(list) == { list[i].category : i \in 1..Len(list) }

\* C6: while the result holds fewer than 3 entries the walk appends no entry
\* whose initial is that of an entry already in the result, the seed
\* included; so with no special match and a catalog of at least 5 initials
\* and 5 categories the first 3 entries returned have distinct initials.
C6_DistinctInitialsBelowThree ==
    \A t \in Clients :
        /\ Walked(t) =>
              \A p \in (call[t].seeded + 1)..Min(call[t].walked, 3) :
                  call[t].selections[p].initial
                      \notin Initials(SubSeq(call[t].selections, 1, p - 1))
        /\ ( /\ Returned(t)
             /\ ~HasSpecialMatch(t)
             /\ Cardinality(Initials(CatalogOf(t))) >= 5
             /\ Cardinality(Categories(CatalogOf(t))) >= 5 ) =>
              \A i, j \in 1..Min(3, Len(returned(call[t]))) :
                  i < j => returned(call[t])[i].initial # returned(call[t])[j].initial

\* C7: once the result holds 3 or more entries, every entry the walk appends
\* has a category different from that of every entry already in the result,
\* the seed and the first picks included.
C7_DistinctCategoriesFromThree ==
    \A t \in Clients :
        Walked(t) =>
            \A p \in (Max(call[t].seeded, 3) + 1)..call[t].walked :
                call[t].selections[p].category
                    \notin Categories(SubSeq(call[t].selections, 1, p - 1))

\* C8: at most 5 entries are returned, and exactly min(5, size of the
\* catalog) when the catalog is not empty and its names are pairwise
\* distinct, whatever the initials and categories.
C8_FillsToFive ==
    \A t \in Clients :
        Returned(t) =>
            /\ Len(returned(call[t])) <= 5
            /\ (CatalogOf(t) # << >> /\ DistinctNames(CatalogOf(t))) =>
                  Len(returned(call[t])) = Min(5, Len(CatalogOf(t)))

\* C8 witness: a catalog of more than 5 entries with distinct names, one
\* initial and one category, where the walk chose 1 entry and the backfill 4
C8_Witness ==
    \E t \in Clients :
        /\ Returned(t)
        /\ Len(CatalogOf(t)) > 5
        /\ DistinctNames(CatalogOf(t))
        /\ Cardinality(Initials(CatalogOf(t))) = 1
        /\ Cardinality(Categories(CatalogOf(t))) = 1
        /\ call[t].walked = 1
        /\ Len(returned(call[t])) = 5

\* the scores the scoring loop gave to the entries equal to entry
ScoresOf(scored_candidates, entry) ==
    { scored_candidates[i].score :
        i \in { j \in 1..Len(scored_candidates) : scored_candidates[j].entry = entry } }

\* the sort and the walk of the call of t, taken in this step
WalkStep(t) == pc[t] = "scoring" /\ pc'[t] \in { "backfill", "return" }

\* the backfill of the call of t, taken in this step
BackfillStep(t) == pc[t] = "backfill" /\ pc'[t] = "return"

\* C12: the result is assembled in ranking order: the walk appends its
\* entries after the seed, each a scored candidate, in non-increasing score
\* order, the first of them of maximum score whenever an entry was scored;
\* the backfill appends after them and moves none; the list is returned as
\* assembled.
C12_AssembledInRankingOrder ==
    /\ [](\A t \in Clients :
            Returned(t) =>
                /\ returned(call[t]) = call[t].selections
                /\ call[t].seeded <= call[t].walked
                /\ call[t].walked <= Len(call[t].selections))
    /\ [][\A t \in Clients :
            /\ WalkStep(t) =>
                  LET scored == call[t].scored_candidates
                      before == call[t].selections
                      after == call'[t].selections
                      picks == SubSeq(after, Len(before) + 1, Len(after))
                  IN  /\ Len(before) = call[t].seeded
                      /\ call'[t].seeded = call[t].seeded
                      /\ call'[t].walked = Len(after)
                      /\ SubSeq(after, 1, Len(before)) = before
                      /\ \A i \in 1..Len(picks) : ScoresOf(scored, picks[i]) # {}
                      /\ \A i, j \in 1..Len(picks) :
                            i < j => SetMin(ScoresOf(scored, picks[i]))
                                        >= SetMax(ScoresOf(scored, picks[j]))
                      /\ scored # << >> =>
                            /\ picks # << >>
                            /\ ScoresOf(scored, picks[1])
                                 = { SetMax({ scored[i].score : i \in 1..Len(scored) }) }
            /\ BackfillStep(t) =>
                  /\ call'[t].seeded = call[t].seeded
                  /\ call'[t].walked = call[t].walked
                  /\ Len(call[t].selections) = call[t].walked
                  /\ SubSeq(call'[t].selections, 1, Len(call[t].selections))
                        = call[t].selections ]_vars

\* C12 witness: a result of a seed, two entries of the walk with different
\* scores and an entry of the backfill
C12_Witness ==
    \E t \in Clients :
        /\ Returned(t)
        /\ call[t].seeded = 1
        /\ call[t].walked = 3
        /\ Len(returned(call[t])) > 3
        /\ compute_similarity_score(call[t].original_name, returned(call[t])[2])
             > compute_similarity_score(call[t].original_name, returned(call[t])[3])

-----------------------------------------------------------------------------
(* get_daily_fortune (lines 309-335) *)

\* datetime.now().strftime("%Y-%m-%d") for the days of January 2024
strftime(date) ==
    << 50, 48, 50, 52, 45, 48, 49, 45 >>
      \o << 48 + ((date + 1) \div 10), 48 + ((date + 1) % 10) >>

\* hashlib.md5(text).hexdigest(), as a polynomial hash of the code points:
\* a function of the text alone
RECURSIVE DigestUpTo(_, _)
DigestUpTo(text, n) ==
    IF n = 0 THEN 7 ELSE (DigestUpTo(text, n - 1) * 31 + text[n]) % 65521

Digest(text) == DigestUpTo(text, Len(text))

\* a seed taken from the generator of the process
fortune_seed_shared(korean_name, date) ==
    CHOOSE digest \in { (Digest(seed_string) + 1 + rng_state) % 65521 :
                          seed_string \in { korean_name \o strftime(date) } } : TRUE

\* lines 311-313: seed_string is bound once, and the seed of the generator
\* created inside the call is its digest
fortune_seed(korean_name, date) ==
    CHOOSE digest \in { Digest(seed_string) :
                          seed_string \in { korean_name \o strftime(date) } } : TRUE

\* random.Random(seed): a generator of its own; each value it gives moves
\* its state, a linear congruential step standing for the twister
LocalNext(state) == (state * 75 + 74) % 65537

\* lines 316-333, rng being the state of the generator of the call
RECURSIVE fortunes_from(_, _)
fortunes_from(categories, rng) ==
    IF categories = << >> THEN << >>
    ELSE LET category_data == Head(categories)
             messages == category_data.messages
         IN  IF messages = << >> THEN fortunes_from(Tail(categories), rng)
             ELSE LET drawn == LocalNext(rng)
                      message_obj == messages[(drawn % Len(messages)) + 1]
                  IN  << [ category |-> category_data.category,
                           category_ko |-> IF category_data.category_ko = ""
                                           THEN category_data.category
                                           ELSE category_data.category_ko,
                           message |-> message_obj.en,
                           message_ko |-> IF message_obj.kind = "dict" THEN message_obj.ko ELSE "" ] >>
                      \o fortunes_from(Tail(categories), drawn)

\* rng is bound once, to the generator seeded at line 313
get_daily_fortune(korean_name) ==
    CHOOSE fortunes \in { fortunes_from(FORTUNES_DATA, rng) :
                            rng \in { fortune_seed(korean_name, today) } } : TRUE

-----------------------------------------------------------------------------
(* Request handlers *)

\* a validation that lets every value through
validate_gender_unchecked(raw_gender) == raw_gender

\* lines 338-343
validate_gender(raw_gender) ==
    IF raw_gender \notin ALLOWED_GENDERS THEN "male" ELSE raw_gender

\* the token apply_before_request puts in every session (lines 413-420)
SessionToken == "token"

\* lines 356-374; the empty string is an absent header or token
enforce_csrf(strict, provided, expected) ==
    IF provided = "" THEN ~strict
    ELSE IF expected = "" THEN FALSE
    ELSE IF provided # expected THEN FALSE
    ELSE TRUE

\* request.get_json(silent=True): nothing, or the fields of the body
NoData == [ present |-> FALSE, name |-> NoText, gender |-> "", numeric |-> FALSE, index |-> 0 ]

RecommendBody(name, gender) == [ NoData EXCEPT !.present = TRUE, !.name = name, !.gender = gender ]

SelectBody(numeric, index) == [ NoData EXCEPT !.present = TRUE, !.numeric = numeric, !.index = index ]

\* the /recommend requests: << X-CSRF-Token header, body >>
RecommendRequests ==
    { << "forged", RecommendBody(InputWilson, "male") >>,
      << "", NoData >>,
      << "", RecommendBody(InputBlank, "male") >>,
      << "", RecommendBody(InputTooLong, "male") >>,
      << SessionToken, RecommendBody(InputPadded, "male") >>,
      << "", RecommendBody(InputWilson, "female") >>,
      << "", RecommendBody(InputWilson, "other") >> }

\* the /select requests; an index is an integer or something int() rejects
SelectRequests ==
    { << "forged", SelectBody(TRUE, 0) >>, << "", NoData >>, << "", SelectBody(FALSE, 0) >> }
    \cup { << SessionToken, SelectBody(TRUE, i) >> : i \in (0 - 1)..2 }

\* error_response (lines 69-74)
error_response(code, status) ==
    [ NoResponse EXCEPT !.status = status, !.code = code, !.date = today ]

\* lines 516-539, up to the call of select_korean_names
Recommend(t, provided, data) ==
    /\ pc[t] = "idle"
    /\ IF ~enforce_csrf(FALSE, provided, SessionToken)
       THEN /\ response' = error_response("CSRF_FAILED", 403)
            /\ UNCHANGED << session, pc, call >>
       ELSE IF ~data.present
       THEN /\ response' = error_response("NO_DATA", 400)
            /\ UNCHANGED << session, pc, call >>
       ELSE LET original_name == Strip(data.name)
                gender == validate_gender(data.gender)
            IN  IF original_name = NoText
                THEN /\ response' = error_response("NAME_REQUIRED", 400)
                     /\ UNCHANGED << session, pc, call >>
                ELSE IF Len(original_name) > NAME_MAX_LEN
                THEN /\ response' = error_response("NAME_TOO_LONG", 400)
                     /\ UNCHANGED << session, pc, call >>
                ELSE /\ call' = [call EXCEPT ![t] = [ NoCall EXCEPT !.original_name = original_name,
                                                                   !.gender = gender ]]
                     /\ pc' = [pc EXCEPT ![t] = "call"]
                     /\ response' = NoResponse
                     /\ UNCHANGED session
    /\ UNCHANGED << NAMES_DATA, FORTUNES_DATA, rng_state, today, scorer, romanizer >>

\* lines 539-547, from the return of select_korean_names
RecommendFinish(t) ==
    /\ pc[t] = "return"
    /\ LET korean_names == returned(call[t])
       IN  IF korean_names = << >>
           THEN /\ response' = error_response("NAME_GENERATION_FAILED", 500)
                /\ UNCHANGED session
           ELSE /\ session' = [session EXCEPT ![t].stored = TRUE,
                                              ![t].recommendations = korean_names]
                /\ response' = [ NoResponse EXCEPT !.status = 200, !.code = "names",
                                                   !.names = korean_names, !.date = today ]
    /\ pc' = [pc EXCEPT ![t] = "idle"]
    /\ call' = [call EXCEPT ![t] = NoCall]
    /\ UNCHANGED << NAMES_DATA, FORTUNES_DATA, rng_state, today, scorer, romanizer >>

\* /select (lines 550-576)
Select(t, provided, data) ==
    /\ pc[t] = "idle"
    /\ IF ~enforce_csrf(FALSE, provided, SessionToken)
       THEN /\ response' = error_response("CSRF_FAILED", 403)
            /\ UNCHANGED session
       ELSE IF ~data.present
       THEN /\ response' = error_response("NO_DATA", 400)
            /\ UNCHANGED session
       ELSE IF ~data.numeric
       THEN /\ response' = error_response("INVALID_INDEX", 400)
            /\ UNCHANGED session
       ELSE LET selected_index == data.index
                recommendations == IF session[t].stored THEN session[t].recommendations
                                   ELSE << >>
            IN  IF selected_index < 0 \/ selected_index >= Len(recommendations)
                THEN /\ response' = error_response("INVALID_SELECTION", 400)
                     /\ UNCHANGED session
                ELSE LET selected_name == recommendations[selected_index + 1]
                         fortune == get_daily_fortune(selected_name.name)
                     IN  /\ UNCHANGED session
                         /\ response' = [ NoResponse EXCEPT !.status = 200,
                                                            !.code = "fortune",
                                                            !.name = << selected_name >>,
                                                            !.fortune = fortune, !.date = today ]
    /\ UNCHANGED << NAMES_DATA, FORTUNES_DATA, rng_state, today, pc, call, scorer, romanizer >>

\* the calendar day changes
Tick ==
    /\ today < MaxDay
    /\ today' = today + 1
    /\ response' = NoResponse
    /\ UNCHANGED << NAMES_DATA, FORTUNES_DATA, rng_state, session, pc, call, scorer, romanizer >>

-----------------------------------------------------------------------------
(* The request specification: two clients, each with its session, whose     *)
(* requests are served concurrently                                         *)

Init ==
    /\ NAMES_DATA \in RequestCatalogs
    /\ FORTUNES_DATA = FortuneCatalog
    /\ rng_state = 0
    /\ today = 0
    /\ session = [ t \in Clients |-> NoSession ]
    /\ call = [ t \in Clients |-> NoCall ]
    /\ pc = [ t \in Clients |-> "idle" ]
    /\ response = NoResponse
    /\ scorer = NoScorer
    /\ romanizer = NoRomanizer

Next ==
    \/ \E t \in Clients, request \in RecommendRequests :
          Recommend(t, request[1], request[2])
    \/ \E t \in Clients : SelectBegin(t)
    \/ \E t \in Clients : ScoreEntry(t)
    \/ \E t \in Clients : RankAndWalk(t)
    \/ \E t \in Clients : Backfill(t)
    \/ \E t \in Clients : RecommendFinish(t)
    \/ \E t \in Clients, request \in SelectRequests :
          Select(t, request[1], request[2])
    \/ Tick

Spec == Init /\ [][Next]_vars

-----------------------------------------------------------------------------
(* Properties of the request handlers *)

\* C4: the tie-break draws and the backfill shuffle neither read nor
\* advance a generator shared between calls: no step of any interleaving of
\* calls changes the state of the process-wide generator.
C4_RandomnessRequestLocal == [][rng_state' = rng_state]_vars

\* the names of the entries a client can select
KoreanNames ==
    { NAMES_DATA[g][i].name : g \in { "male" }, i \in 1..Len(NAMES_DATA["male"]) }

\* a step of /select that called get_daily_fortune
FortuneStep == response'.code = "fortune"

\* C5: get_daily_fortune is a function of the name and the calendar date:
\* no step of any call, interleaved in any way, changes what it returns for
\* a name as long as the date is the same; and a /select request, which
\* calls it, leaves the state of the process-wide generator unchanged.
C5_FortunePure ==
    [][ /\ today' = today =>
              \A name \in KoreanNames : get_daily_fortune(name)' = get_daily_fortune(name)
        /\ FortuneStep => rng_state' = rng_state ]_vars

\* C5 witness: a fortune was sent after the process-wide generator had
\* been advanced by a call of select_korean_names
C5_Witness ==
    /\ response.code = "fortune"
    /\ response.fortune # << >>
    /\ rng_state # 0

\* C10: select_korean_names returns the empty list exactly when the catalog
\* of the gender is absent or empty; /recommend then answers
\* NAME_GENERATION_FAILED with status 500 and leaves the session as it was;
\* the gender that reaches select_korean_names is male or female, an
\* invalid one having been replaced by male.
C10_EmptyOnlyForEmptyCatalog ==
    /\ [](\A t \in Clients :
            /\ Returned(t) => (returned(call[t]) = << >> <=> CatalogOf(t) = << >>)
            /\ pc[t] # "idle" => call[t].gender \in ALLOWED_GENDERS)
    /\ [][\A t \in Clients :
            /\ (pc[t] = "return" /\ pc'[t] = "idle" /\ returned(call[t]) = << >>) =>
                  /\ response'.code = "NAME_GENERATION_FAILED"
                  /\ response'.status = 500
                  /\ session' = session
            /\ (pc[t] = "idle" /\ pc'[t] = "call") =>
                  \A request \in RecommendRequests :
                      ( /\ request[2].gender \notin ALLOWED_GENDERS
                        /\ Recommend(t, request[1], request[2]) ) =>
                          call'[t].gender = "male" ]_vars

\* C10 witness: a request failed with NAME_GENERATION_FAILED although the
\* male catalog has entries and a session holds recommendations
C10_Witness ==
    /\ response.code = "NAME_GENERATION_FAILED"
    /\ NAMES_DATA["male"] # << >>
    /\ \E t \in Clients : session[t].stored /\ session[t].recommendations # << >>

-----------------------------------------------------------------------------
(* The scorer specification: compute_similarity_score applied to every      *)
(* input and entry of the families below                                    *)

\* strings of 1..ScoreLen characters among a, b, J and the hyphen
ScoreInputs ==
    UNION { [ 1..n -> { 97, 98, 74, 45 } ] : n \in 1..ScoreLen }

\* strings of 0..ScoreLen characters among a, b and the hyphen
ScoreVariants ==
    UNION { [ 1..n -> { 97, 98, 45 } ] : n \in 0..ScoreLen }

ScoreRomanizations ==
    { << >> } \cup { << v >> : v \in ScoreVariants }
    \cup { << v, << 97, 98 >> >> : v \in ScoreVariants }

ScoreEntries ==
    { Entry(name, romanization, "Honor", initial, NoText) :
        name \in { NoText, << 50500 >>, << 51652 >> },
        romanization \in ScoreRomanizations,
        initial \in { NoText, << 65 >>, << 106 >> } }

InitScore ==
    /\ NAMES_DATA = NamesData(<< >>, << >>)
    /\ FORTUNES_DATA = FortuneCatalog
    /\ rng_state = 0
    /\ today = 0
    /\ session = [ t \in Clients |-> NoSession ]
    /\ call = [ t \in Clients |-> NoCall ]
    /\ pc = [ t \in Clients |-> "off" ]
    /\ response = NoResponse
    /\ \E english_name \in ScoreInputs, entry \in ScoreEntries :
          scorer = [ NoScorer EXCEPT !.english_name = english_name, !.entry = << entry >> ]
    /\ romanizer = NoRomanizer

\* one call of compute_similarity_score (lines 227-249); best_score is the
\* value of the variable of that name when the loop of line 234 ends
ApplyScore ==
    /\ ~scorer.done
    /\ LET english_norm == normalize_romanization(scorer.english_name)
       IN  scorer' = [ scorer EXCEPT
               !.best_score = IF english_norm = << >> THEN 0
                              ELSE best_score_of(english_norm, scorer.entry[1]),
               !.score = compute_similarity_score(scorer.english_name, scorer.entry[1]),
               !.done = TRUE ]
    /\ UNCHANGED << NAMES_DATA, FORTUNES_DATA, rng_state, today, session, pc, call,
                    response, romanizer >>

NextScore == ApplyScore

SpecScore == InitScore /\ [][NextScore]_vars

\* the normalised variants of the entry scored that are not empty
ScoredVariants ==
    { v \in { normalize_romanization(c) : c \in Range(get_candidate_romanization(scorer.entry[1])) } :
        v # << >> }

ScoredInput == normalize_romanization(scorer.english_name)

AdjustedRatios == { AdjustedRatio(ScoredInput, v) : v \in ScoredVariants }

\* C9: for a non-empty normalised input the score before the initial bonus
\* and the rounding is exactly the maximum over the variants of the adjusted
\* ratio, clamped at neither end: above 1.0 when a variant equals the input,
\* below 0 when every variant's adjusted ratio is negative.
C9_MaxAdjustedUnclamped ==
    (scorer.done /\ ScoredInput # << >> /\ ScoredVariants # {}) =>
        scorer.best_score = SetMax(AdjustedRatios)

\* C9 as amended: the score before the bonus and the rounding is the maximum
\* of 0 and the adjusted ratios of the variants whose normalised form is not
\* empty: above 1.0 when a variant equals the input, never below 0.
C9_MaxAdjustedFloored ==
    (scorer.done /\ ScoredInput # << >>) =>
        /\ scorer.best_score = SetMax(AdjustedRatios \cup { 0 })
        /\ ScoredInput \in ScoredVariants => scorer.best_score > Scale
        /\ scorer.best_score >= 0

\* C9 witness: every variant's adjusted ratio is negative and the score
\* before the bonus is 0
C9_Witness ==
    /\ scorer.done
    /\ ScoredInput # << >>
    /\ ScoredVariants # {}
    /\ \A r \in AdjustedRatios : r < 0
    /\ scorer.best_score = 0

-----------------------------------------------------------------------------
(* The romanizer specification: romanize_syllable applied to every code     *)
(* point of the block it takes for syllables, to the code points around it  *)
(* and to code points far from it                                           *)

\* the code points given: the block, RomanMargin code points on each side,
\* NUL, the space, A and the last code point of Unicode
RomanChars ==
    ((HANGUL_BASE - RomanMargin)..(HANGUL_LAST + RomanMargin))
        \cup { 0, 32, 65, 1114111 }

InitRoman ==
    /\ NAMES_DATA = NamesData(<< >>, << >>)
    /\ FORTUNES_DATA = FortuneCatalog
    /\ rng_state = 0
    /\ today = 0
    /\ session = [ t \in Clients |-> NoSession ]
    /\ call = [ t \in Clients |-> NoCall ]
    /\ pc = [ t \in Clients |-> "off" ]
    /\ response = NoResponse
    /\ scorer = NoScorer
    /\ \E code_point \in RomanChars :
          romanizer = [ NoRomanizer EXCEPT !.char = code_point ]

\* one call of romanize_syllable (lines 178-187); cho, jung and jong are
\* assigned only inside the branch of line 181
ApplyRomanize ==
    /\ ~romanizer.done
    /\ LET code_point == romanizer.char
           at == syllable_indices(code_point)
       IN  romanizer' =
               IF HANGUL_BASE <= code_point /\ code_point <= HANGUL_LAST
               THEN [ romanizer EXCEPT !.cho = at.cho, !.jung = at.jung, !.jong = at.jong,
                                       !.result = romanize_syllable(code_point),
                                       !.done = TRUE ]
               ELSE [ romanizer EXCEPT !.result = romanize_syllable(code_point),
                                       !.done = TRUE ]
    /\ UNCHANGED << NAMES_DATA, FORTUNES_DATA, rng_state, today, session, pc, call,
                    response, scorer >>

NextRoman == ApplyRomanize

SpecRoman == InitRoman /\ [][NextRoman]_vars

\* C11: for every code point of 0xAC00..0xD7A3 the indices offset div 588,
\* (offset mod 588) div 28 and offset mod 28 lie in 0..18, 0..20 and 0..27,
\* inside the tables of 19, 21 and 28 entries, so no lookup fails and the
\* result is a string of letters; every code point outside the block, 0xABFF
\* and 0xD7A4 included, is returned unchanged.
C11_RomanizationTotal ==
    romanizer.done =>
        IF 44032 <= romanizer.char /\ romanizer.char <= 55203
        THEN LET offset == romanizer.char - 44032
             IN  /\ romanizer.cho = offset \div 588
                 /\ romanizer.jung = (offset % 588) \div 28
                 /\ romanizer.jong = offset % 28
                 /\ romanizer.cho \in 0..18
                 /\ romanizer.jung \in 0..20
                 /\ romanizer.jong \in 0..27
                 /\ Len(CHO_ROMA) = 19
                 /\ Len(JUNG_ROMA) = 21
                 /\ Len(JONG_ROMA) = 28
                 /\ romanizer.result # IndexError
                 /\ Len(romanizer.result) >= 1
                 /\ \A i \in 1..Len(romanizer.result) : romanizer.result[i] \in AsciiLower
        ELSE romanizer.result = << romanizer.char >>

\* C11 witness: the last code point of the block, with the last index of each
\* table, is romanized "hih"
C11_Witness ==
    /\ romanizer.done
    /\ romanizer.char = 55203
    /\ romanizer.cho = 18
    /\ romanizer.jung = 20
    /\ romanizer.jong = 27
    /\ romanizer.result = << 104, 105, 104 >>

=============================================================================
